---------------------------- MODULE Spec2Model ----------------------------
(***************************************************************************)
(* A model of the reconciliation core of lambroll: the defaulting          *)
(* normalizer (fillDefaultValues), the remote state mirror                 *)
(* (newFunctionFrom), the code-type guard (validateUpdateFunction), the    *)
(* Diff command, the Versions listing, the command-line entry point (CLI,  *)
(* dispatchCLI) and the definition loader (loadDefinitionFile).            *)
(*                                                                         *)
(* Encoding of Go values:                                                  *)
(*   - a pointer or a nilable slice is a sequence of length 0 or 1:        *)
(*     Nil is <<>> and Some(v) is <<v>>, so that "absent" and "present     *)
(*     with the zero value" are different values;                          *)
(*   - a Go string-typed enum keeps "" as its zero value;                  *)
(*   - a struct is a record.                                               *)
(***************************************************************************)
EXTENDS Integers, Sequences, FiniteSets, TLC

VARIABLES
    \* ---- normalizer harness ----
    fn,          \* the Function handed to fillDefaultValues
    fnInput,     \* the Function as it was before the first call
    fills,       \* how many times fillDefaultValues has been applied to fn
    \* ---- Diff ----
    opt,         \* DiffOption: the ignore query and the code-sha256 flag
    remote,      \* the function held by the remote service: Nil or Some(GetFunctionOutput)
    dpc,         \* the statement of Diff that runs next
    newFunc,     \* the loaded and normalized desired definition
    latestFunc,  \* the definition reconstructed from the remote, normalized
    calls,       \* the remote API calls issued so far, in order
    dOut,        \* what Diff has printed so far
    zipOps,      \* what has been done with the candidate archive
    dErr,        \* the error Diff returned, Nil for none
    \* ---- Versions ----
    aliasPages,      \* the pages of aliases the remote service holds
    versionPages,    \* the pages of versions the remote service holds
    vpc,             \* the statement of Versions that runs next
    nextAliasMarker, \* the marker of the alias loop
    nextMarker,      \* the marker of the version loop
    aliases,         \* version -> names of the aliases that reference it
    versions,        \* the versions accumulated by the version loop
    vCalls,          \* the list calls issued so far, each with its request marker
    vOut,            \* the records Versions has printed, Nil before the print
    vErr,            \* the error Versions returned, Nil for none
    \* ---- CLI ----
    cpc,         \* the statement of CLI / dispatchCLI that runs next
    sub,         \* the subcommand parse returned
    cOpts,       \* the options parse returned: Nil or Some(CLIOptions)
    noColor,     \* color.NoColor
    minLevel,    \* the MinLevel of the log filter, "" before it is installed
    cTrace,      \* what CLI has called so far, each call with the error it returned
    cRet,        \* what CLI returned: Nil or Some([code, err])
    \* ---- loadDefinitionFile ----
    lpc,         \* the statement of loadDefinitionFile that runs next
    lApp,        \* the app argument: Nil or Some(App)
    lPath,       \* the path argument, then the resolved path
    lContent,    \* the text of the file at the resolved path, Nil before it is read
    vm,          \* what is bound in the jsonnet VM
    lApplied,    \* the library calls made so far
    lSrc,        \* src: the text handed to the deserializer, Nil before it is set
    lVal,        \* the value returned, Nil for none
    lErr         \* the error returned, Nil for none

fillVars == <<fn, fnInput, fills>>

diffVars == <<opt, remote, dpc, newFunc, latestFunc, calls, dOut, zipOps, dErr>>

versionsVars == <<aliasPages, versionPages, vpc, nextAliasMarker, nextMarker,
                  aliases, versions, vCalls, vOut, vErr>>

cliVars == <<cpc, sub, cOpts, noColor, minLevel, cTrace, cRet>>

loadVars == <<lpc, lApp, lPath, lContent, vm, lApplied, lSrc, lVal, lErr>>

vars == <<fn, fnInput, fills,
          opt, remote, dpc, newFunc, latestFunc, calls, dOut, zipOps, dErr,
          aliasPages, versionPages, vpc, nextAliasMarker, nextMarker,
          aliases, versions, vCalls, vOut, vErr,
          cpc, sub, cOpts, noColor, minLevel, cTrace, cRet,
          lpc, lApp, lPath, lContent, vm, lApplied, lSrc, lVal, lErr>>

----------------------------------------------------------------------------
(* Go pointers and nilable slices *)

Nil == <<>>

Some(v) == <<v>>

IsNil(p) == p = <<>>

Deref(p) == p[1]

----------------------------------------------------------------------------
(* The commands and functions are modelled apart: while one runs, the
   variables of the others rest *)

\* the variables of the normalizer harness while it does not run
IdleFill ==
    /\ fn = Nil
    /\ fnInput = Nil
    /\ fills = 0

\* the variables of Diff while no Diff runs
IdleDiff ==
    /\ opt = [Ignore |-> "", CodeSha256 |-> FALSE]
    /\ remote = Nil
    /\ dpc = "idle"
    /\ newFunc = Nil
    /\ latestFunc = Nil
    /\ calls = <<>>
    /\ dOut = <<>>
    /\ zipOps = <<>>
    /\ dErr = Nil

\* the variables of Versions while no Versions runs
IdleVersions ==
    /\ vpc = "idle"
    /\ aliasPages = <<>>
    /\ versionPages = <<>>
    /\ nextAliasMarker = Nil
    /\ nextMarker = Nil
    /\ aliases = <<>>
    /\ versions = <<>>
    /\ vCalls = <<>>
    /\ vOut = Nil
    /\ vErr = Nil

\* the variables of CLI while no CLI runs
IdleCLI ==
    /\ cpc = "idle"
    /\ sub = ""
    /\ cOpts = Nil
    /\ noColor = FALSE
    /\ minLevel = ""
    /\ cTrace = <<>>
    /\ cRet = Nil

\* the variables of loadDefinitionFile while it does not run
IdleLoad ==
    /\ lpc = "idle"
    /\ lApp = Nil
    /\ lPath = ""
    /\ lContent = Nil
    /\ vm = [nativeFuncs |-> {}, extStr |-> {}, extCode |-> {}]
    /\ lApplied = {}
    /\ lSrc = Nil
    /\ lVal = Nil
    /\ lErr = Nil

----------------------------------------------------------------------------
(* Constants of the program *)

versionLatest == "$LATEST"

packageTypeImage == "Image"

ArchitectureX8664 == "x86_64"

LogFormatText == "Text"

LogFormatJson == "JSON"

LogLevelInfo == "INFO"

TracingModePassThrough == "PassThrough"

SnapStartApplyOnNone == "None"

DefaultMemorySize == 128

DefaultEphemeralStorageSize == 512

DefaultTimeout == 3

----------------------------------------------------------------------------
(* Bounds of the model *)

\* how many times the harness applies fillDefaultValues to one definition
MaxFills == 2

\* how many published versions the function has
MaxPublished == 3

\* how many aliases the function has at most
MaxAliases == 2

\* into how many pages the service cuts a listing at most
MaxPages == 2

----------------------------------------------------------------------------
(* The Function type (lambda.CreateFunctionInput), reduced to the fields   *)
(* the modelled code reads or writes, and the values the harness draws.    *)

FunctionNames == {"hello"}

LoggingConfigs ==
    [LogFormat : {"", LogFormatText, LogFormatJson},
     LogGroup : {Nil, Some("/custom/group")},
     ApplicationLogLevel : {"", "DEBUG"},
     SystemLogLevel : {"", "WARN"}]

FunctionCodes == {Nil, Some([ImageUri |-> Nil]), Some([ImageUri |-> Some("repo/img:1")])}

PackageTypes == {"", "Zip", packageTypeImage}

\* the definitions the normalizer harness starts from
FillInputs ==
    [FunctionName : FunctionNames,
     Handler : {Some("index.handler")},
     Runtime : {"nodejs18.x"},
     Role : {Some("arn:role")},
     PackageType : {""},
     Code : {Nil},
     Tags : {Nil},
     Environment : {Some([Variables |-> "FOO=bar"])},
     VpcConfig : {Nil},
     Architectures : {Nil, Some(<<>>), Some(<<"arm64">>)},
     Description : {Nil, Some(""), Some("my function")},
     MemorySize : {Nil, Some(0), Some(256)},
     Layers : {Nil, Some(<<>>), Some(<<"arn:layer:1">>)},
     LoggingConfig : {Nil} \cup {Some(lc) : lc \in LoggingConfigs},
     TracingConfig : {Nil, Some([Mode |-> ""]), Some([Mode |-> "Active"])},
     EphemeralStorage : {Nil, Some([Size |-> Some(1024)])},
     Timeout : {Nil, Some(0), Some(30)},
     SnapStart : {Nil, Some([ApplyOn |-> "PublishedVersions"])}]

----------------------------------------------------------------------------
(* fillDefaultValues *)

\* the default log group of a function: /aws/lambda/<function name>
resolveLogGroup(f) ==
    IF ~IsNil(f.LoggingConfig) /\ ~IsNil(Deref(f.LoggingConfig).LogGroup)
    THEN Deref(Deref(f.LoggingConfig).LogGroup)
    ELSE "/aws/lambda/" \o f.FunctionName

\* len(fn.Architectures) == 0 is true of a nil and of an empty slice
fillArchitectures(f) ==
    IF IsNil(f.Architectures) \/ Len(Deref(f.Architectures)) = 0
    THEN [f EXCEPT !.Architectures = Some(<<ArchitectureX8664>>)]
    ELSE f

fillDescription(f) ==
    IF IsNil(f.Description) THEN [f EXCEPT !.Description = Some("")] ELSE f

\* a normalizer that takes an explicit zero for an absent memory size
fillMemorySize_zeroIsAbsent(f) ==
    IF IsNil(f.MemorySize) \/ Deref(f.MemorySize) = 0
    THEN [f EXCEPT !.MemorySize = Some(DefaultMemorySize)]
    ELSE f

fillMemorySize(f) ==
    IF IsNil(f.MemorySize) THEN [f EXCEPT !.MemorySize = Some(DefaultMemorySize)] ELSE f

\* a normalizer that forgets to turn a nil layer list into an empty one
fillLayers_keepNil(f) == f

fillLayers(f) ==
    IF IsNil(f.Layers) THEN [f EXCEPT !.Layers = Some(<<>>)] ELSE f

\* a logging block that defaults the two levels whatever the format is
fillPresentLoggingConfig_levelsAlways(f) ==
    LET lc0 == Deref(f.LoggingConfig)
        lc1 == IF lc0.LogFormat = "" THEN [lc0 EXCEPT !.LogFormat = LogFormatText] ELSE lc0
        f1  == [f EXCEPT !.LoggingConfig = Some(lc1)]
        lc2 == IF IsNil(lc1.LogGroup)
               THEN [lc1 EXCEPT !.LogGroup = Some(resolveLogGroup(f1))]
               ELSE lc1
        lc3 == IF lc2.ApplicationLogLevel = ""
               THEN [lc2 EXCEPT !.ApplicationLogLevel = LogLevelInfo]
               ELSE lc2
        lc4 == IF lc3.SystemLogLevel = ""
               THEN [lc3 EXCEPT !.SystemLogLevel = LogLevelInfo]
               ELSE lc3
    IN  [f EXCEPT !.LoggingConfig = Some(lc4)]

\* the else branch of the logging block: lc aliases fn.LoggingConfig, and
\* the four assignments happen in this order
fillPresentLoggingConfig(f) ==
    LET lc0 == Deref(f.LoggingConfig)
        lc1 == IF lc0.LogFormat = "" THEN [lc0 EXCEPT !.LogFormat = LogFormatText] ELSE lc0
        f1  == [f EXCEPT !.LoggingConfig = Some(lc1)]
        lc2 == IF IsNil(lc1.LogGroup)
               THEN [lc1 EXCEPT !.LogGroup = Some(resolveLogGroup(f1))]
               ELSE lc1
        lc3 == IF lc2.ApplicationLogLevel = "" /\ lc2.LogFormat = LogFormatJson
               THEN [lc2 EXCEPT !.ApplicationLogLevel = LogLevelInfo]
               ELSE lc2
        lc4 == IF lc3.SystemLogLevel = "" /\ lc3.LogFormat = LogFormatJson
               THEN [lc3 EXCEPT !.SystemLogLevel = LogLevelInfo]
               ELSE lc3
    IN  [f EXCEPT !.LoggingConfig = Some(lc4)]

\* a normalizer whose default format for an absent logging configuration is
\* the structured one, without the levels that go with it
fillLoggingConfig_jsonDefault(f) ==
    IF IsNil(f.LoggingConfig)
    THEN [f EXCEPT !.LoggingConfig =
              Some([LogFormat |-> LogFormatJson,
                    LogGroup |-> Some(resolveLogGroup(f)),
                    ApplicationLogLevel |-> "",
                    SystemLogLevel |-> ""])]
    ELSE fillPresentLoggingConfig(f)

fillLoggingConfig(f) ==
    IF IsNil(f.LoggingConfig)
    THEN [f EXCEPT !.LoggingConfig =
              Some([LogFormat |-> LogFormatText,
                    LogGroup |-> Some(resolveLogGroup(f)),
                    ApplicationLogLevel |-> "",
                    SystemLogLevel |-> ""])]
    ELSE fillPresentLoggingConfig(f)

fillTracingConfig(f) ==
    IF IsNil(f.TracingConfig)
    THEN [f EXCEPT !.TracingConfig = Some([Mode |-> TracingModePassThrough])]
    ELSE f

fillEphemeralStorage(f) ==
    IF IsNil(f.EphemeralStorage)
    THEN [f EXCEPT !.EphemeralStorage = Some([Size |-> Some(DefaultEphemeralStorageSize)])]
    ELSE f

fillTimeout(f) ==
    IF IsNil(f.Timeout) THEN [f EXCEPT !.Timeout = Some(DefaultTimeout)] ELSE f

fillSnapStart(f) ==
    IF IsNil(f.SnapStart)
    THEN [f EXCEPT !.SnapStart = Some([ApplyOn |-> SnapStartApplyOnNone])]
    ELSE f

\* the body of fillDefaultValues for a non-nil fn, statement by statement
fillDefaultValues(f) ==
    fillSnapStart(
     fillTimeout(
      fillEphemeralStorage(
       fillTracingConfig(
        fillLoggingConfig(
         fillLayers(
          fillMemorySize(
           fillDescription(
            fillArchitectures(f)))))))))

----------------------------------------------------------------------------
(* The normalizer harness: a definition is drawn, then normalized          *)
(* repeatedly.                                                             *)

InitFill ==
    /\ fnInput \in FillInputs
    /\ fn = fnInput
    /\ fills = 0
    /\ IdleDiff
    /\ IdleVersions
    /\ IdleCLI
    /\ IdleLoad

FillDefaults ==
    /\ fills < MaxFills
    /\ fn' = fillDefaultValues(fn)
    /\ fills' = fills + 1
    /\ UNCHANGED fnInput
    /\ UNCHANGED <<diffVars, versionsVars, cliVars, loadVars>>

NextFill == FillDefaults

SpecFill == InitFill /\ [][NextFill]_vars

----------------------------------------------------------------------------
(* The remote service's view of the function (GetFunctionOutput) *)

RemoteCodeLocations ==
    {Nil,
     Some([RepositoryType |-> "S3", ImageUri |-> Nil]),
     Some([RepositoryType |-> "ECR", ImageUri |-> Some("repo/img:1")])}

RemoteConfigurations ==
    [FunctionName : FunctionNames,
     PackageType : {"Zip", packageTypeImage},
     CodeSha256 : {"shaA"},
     Handler : {Some("index.handler")},
     Runtime : {"nodejs18.x"},
     Role : {Some("arn:role")},
     Architectures : {Some(<<ArchitectureX8664>>)},
     Description : {Some("")},
     MemorySize : {Some(128), Some(256)},
     Layers : {<<>>, <<[Arn |-> "arn:layer:1", CodeSize |-> 10]>>},
     LoggingConfig : {Some([LogFormat |-> LogFormatText, LogGroup |-> Some("/aws/lambda/hello"),
                            ApplicationLogLevel |-> "", SystemLogLevel |-> ""])},
     TracingConfig : {Some([Mode |-> TracingModePassThrough])},
     EphemeralStorage : {Some([Size |-> Some(512)])},
     Timeout : {Some(3)},
     SnapStart : {Nil, Some([ApplyOn |-> SnapStartApplyOnNone, OptimizationStatus |-> "Off"])},
     Environment : {Some([Variables |-> "FOO=bar", Error |-> Nil])},
     VpcConfig : {Some([VpcId |-> "", SubnetIds |-> <<>>, SecurityGroupIds |-> <<>>])}]

RemoteFunctions ==
    {Nil} \cup {Some([Configuration |-> c, Code |-> code, Tags |-> Nil]) :
                   c \in RemoteConfigurations, code \in RemoteCodeLocations}

----------------------------------------------------------------------------
(* newFunctionFrom *)

newSnapStart(s) ==
    IF IsNil(s) THEN Nil ELSE Some([ApplyOn |-> Deref(s).ApplyOn])

\* fn.Layers stays nil when the configuration has no layer
newFunctionLayers(layers) ==
    IF Len(layers) = 0 THEN Nil ELSE Some([i \in 1..Len(layers) |-> layers[i].Arn])

\* the Function literal and the field-by-field copies that follow it; the
\* literal does not set PackageType nor Code
newFunctionBase(c) ==
    [FunctionName |-> c.FunctionName,
     Handler |-> c.Handler,
     Runtime |-> c.Runtime,
     Role |-> c.Role,
     PackageType |-> "",
     Code |-> Nil,
     Tags |-> Nil,
     Environment |-> IF IsNil(c.Environment) THEN Nil
                     ELSE Some([Variables |-> Deref(c.Environment).Variables]),
     VpcConfig |-> IF ~IsNil(c.VpcConfig) /\ Deref(c.VpcConfig).VpcId # ""
                   THEN Some([SubnetIds |-> Deref(c.VpcConfig).SubnetIds,
                              SecurityGroupIds |-> Deref(c.VpcConfig).SecurityGroupIds])
                   ELSE Nil,
     Architectures |-> c.Architectures,
     Description |-> c.Description,
     MemorySize |-> c.MemorySize,
     Layers |-> newFunctionLayers(c.Layers),
     LoggingConfig |-> c.LoggingConfig,
     TracingConfig |-> IF IsNil(c.TracingConfig) THEN Nil
                       ELSE Some([Mode |-> Deref(c.TracingConfig).Mode]),
     EphemeralStorage |-> c.EphemeralStorage,
     Timeout |-> c.Timeout,
     SnapStart |-> newSnapStart(c.SnapStart)]

\* the condition of the image block: the second disjunct reads the
\* PackageType of the Function under construction, not of the configuration
newFunctionIsImage(f, code) ==
    (~IsNil(code) /\ Deref(code).RepositoryType = "ECR") \/ f.PackageType = packageTypeImage

newFunctionFrom(c, code, tags) ==
    IF IsNil(c) THEN Nil
    ELSE LET f0 == newFunctionBase(Deref(c))
             f1 == IF newFunctionIsImage(f0, code)
                   THEN [f0 EXCEPT !.PackageType = packageTypeImage,
                                   !.Code = Some([ImageUri |-> Deref(code).ImageUri])]
                   ELSE f0
         IN  Some([f1 EXCEPT !.Tags = tags])

----------------------------------------------------------------------------
(* validateUpdateFunction *)

errCannotUpdateImageAndZip == "cannot update function code between Image and Zip"

HasImageUri(code) == ~IsNil(code) /\ ~IsNil(Deref(code).ImageUri)

\* a guard that only looks for an image definition over an archive function
validateUpdateFunction_oneWay(currentConf, currentCode, newFn) ==
    IF IsNil(currentConf) THEN Nil
    ELSE IF (HasImageUri(newFn.Code) \/ newFn.PackageType = packageTypeImage)
            /\ ~HasImageUri(currentCode)
         THEN Some(errCannotUpdateImageAndZip)
         ELSE Nil

\* returns the error, Nil for none
validateUpdateFunction(currentConf, currentCode, newFn) ==
    IF IsNil(currentConf) THEN Nil
    ELSE IF (HasImageUri(newFn.Code) \/ newFn.PackageType = packageTypeImage)
            /\ ~HasImageUri(currentCode)
         THEN Some(errCannotUpdateImageAndZip)
         ELSE IF (HasImageUri(currentCode)
                    \/ (~IsNil(currentConf) /\ Deref(currentConf).PackageType = packageTypeImage))
                 /\ ~HasImageUri(newFn.Code)
              THEN Some(errCannotUpdateImageAndZip)
              ELSE Nil

----------------------------------------------------------------------------
(* Diff *)

ErrExcludeFile == "failed to parse exclude-file"

ErrLoadFunction == "failed to load function"

ErrGetFunction == "failed to GetFunction"

ErrIgnoreQuery == "failed to parse ignore query"

ErrMakeDiff == "failed to make diff"

ErrCodeSha256Zip == "code-sha256 is only supported for Zip package type"

ErrPrepareZipfile == "failed to prepare zipfile"

ErrCopy == "failed to read zipfile"

\* the ignore queries given on the command line; ".[" does not parse
IgnoreQueries == {"", ".MemorySize", ".["}

\* gojq.Parse: Nil for a parse error, else the paths the query selects
gojqParse(q) ==
    CASE q = ".MemorySize" -> Some({"MemorySize"})
      [] q = ".Tags" -> Some({"Tags"})
      [] OTHER -> Nil

\* strings.ToLower on the package types
ToLower(s) ==
    CASE s = "Zip" -> "zip"
      [] s = "Image" -> "image"
      [] OTHER -> s

\* jsondiff.Diff: the fields whose values differ, the ignored paths left out
jsondiffDiff(from, to, ignored) ==
    {k \in DOMAIN from : k \notin ignored /\ from[k] # to[k]}

\* the digests a candidate archive can have
CodeShas == {"shaA", "shaB"}

\* the definitions a function file can hold
DiffDefinitions ==
    [FunctionName : FunctionNames,
     Handler : {Some("index.handler")},
     Runtime : {"nodejs18.x"},
     Role : {Some("arn:role")},
     PackageType : PackageTypes,
     Code : FunctionCodes,
     Tags : {Nil},
     Environment : {Some([Variables |-> "FOO=bar"])},
     VpcConfig : {Nil},
     Architectures : {Nil},
     Description : {Nil},
     MemorySize : {Nil, Some(256)},
     Layers : {Nil},
     LoggingConfig : {Nil},
     TracingConfig : {Nil},
     EphemeralStorage : {Nil},
     Timeout : {Nil},
     SnapStart : {Nil}]

\* the remote calls that change nothing on the remote side
ReadOnlyCalls == {"GetFunction", "ListAliases", "ListVersionsByFunction"}

InitDiff ==
    /\ opt \in [Ignore : IgnoreQueries, CodeSha256 : BOOLEAN]
    /\ remote \in RemoteFunctions
    /\ dpc = "excludes"
    /\ newFunc = Nil
    /\ latestFunc = Nil
    /\ calls = <<>>
    /\ dOut = <<>>
    /\ zipOps = <<>>
    /\ dErr = Nil
    /\ IdleFill
    /\ IdleVersions
    /\ IdleCLI
    /\ IdleLoad

\* return err
DiffReturn(e) ==
    /\ dErr' = e
    /\ dpc' = "done"

\* expandExcludeFile, whose outcome depends on the file system
DiffExpandExcludes ==
    /\ dpc = "excludes"
    /\ \E ok \in BOOLEAN :
         IF ok THEN dpc' = "load" /\ UNCHANGED dErr
         ELSE DiffReturn(Some(ErrExcludeFile))
    /\ UNCHANGED <<opt, remote, newFunc, latestFunc, calls, dOut, zipOps>>
    /\ UNCHANGED <<fillVars, versionsVars, cliVars, loadVars>>

\* loadFunction, then fillDefaultValues(newFunc)
DiffLoadFunction ==
    /\ dpc = "load"
    /\ \/ /\ DiffReturn(Some(ErrLoadFunction))
          /\ UNCHANGED newFunc
       \/ \E f \in DiffDefinitions :
            /\ newFunc' = Some(fillDefaultValues(f))
            /\ dpc' = "get"
            /\ UNCHANGED dErr
    /\ UNCHANGED <<opt, remote, latestFunc, calls, dOut, zipOps>>
    /\ UNCHANGED <<fillVars, versionsVars, cliVars, loadVars>>

\* GetFunction, then newFunctionFrom and fillDefaultValues(latestFunc); the
\* call fails when the function does not exist, and can fail when it does
DiffGetFunction ==
    /\ dpc = "get"
    /\ calls' = Append(calls, "GetFunction")
    /\ \/ /\ DiffReturn(Some(ErrGetFunction))
          /\ UNCHANGED latestFunc
       \/ /\ ~IsNil(remote)
          /\ LET res == Deref(remote)
                 f == newFunctionFrom(Some(res.Configuration), res.Code, res.Tags)
             IN  latestFunc' = Some(fillDefaultValues(Deref(f)))
          /\ dpc' = "ignore"
          /\ UNCHANGED dErr
    /\ UNCHANGED <<opt, remote, newFunc, dOut, zipOps>>
    /\ UNCHANGED <<fillVars, versionsVars, cliVars, loadVars>>

\* a Diff that goes on without the ignore option when the query does not parse
DiffParseIgnore_swallow ==
    /\ dpc = "ignore"
    /\ dpc' = "diff"
    /\ UNCHANGED dErr
    /\ UNCHANGED <<opt, remote, newFunc, latestFunc, calls, dOut, zipOps>>
    /\ UNCHANGED <<fillVars, versionsVars, cliVars, loadVars>>

\* gojq.Parse(ignore) when an ignore query is given
DiffParseIgnore ==
    /\ dpc = "ignore"
    /\ IF opt.Ignore # "" /\ IsNil(gojqParse(opt.Ignore))
       THEN DiffReturn(Some(ErrIgnoreQuery))
       ELSE dpc' = "diff" /\ UNCHANGED dErr
    /\ UNCHANGED <<opt, remote, newFunc, latestFunc, calls, dOut, zipOps>>
    /\ UNCHANGED <<fillVars, versionsVars, cliVars, loadVars>>

\* the paths the parsed ignore query removes from the comparison
DiffIgnored ==
    LET p == gojqParse(opt.Ignore)
    IN  IF opt.Ignore = "" \/ IsNil(p) THEN {} ELSE Deref(p)

\* jsondiff.Diff and the print of its result; the library call can fail
DiffMakeDiff ==
    /\ dpc = "diff"
    /\ \/ /\ DiffReturn(Some(ErrMakeDiff))
          /\ UNCHANGED dOut
       \/ /\ dOut' = Append(dOut, <<"diff", jsondiffDiff(Deref(latestFunc), Deref(newFunc), DiffIgnored)>>)
          /\ dpc' = "validate"
          /\ UNCHANGED dErr
    /\ UNCHANGED <<opt, remote, newFunc, latestFunc, calls, zipOps>>
    /\ UNCHANGED <<fillVars, versionsVars, cliVars, loadVars>>

\* validateUpdateFunction(latest, code, newFunc)
DiffValidate ==
    /\ dpc = "validate"
    /\ LET res == Deref(remote)
           e == validateUpdateFunction(Some(res.Configuration), res.Code, Deref(newFunc))
       IN  IF ~IsNil(e) THEN DiffReturn(e)
           ELSE dpc' = "sha" /\ UNCHANGED dErr
    /\ UNCHANGED <<opt, remote, newFunc, latestFunc, calls, dOut, zipOps>>
    /\ UNCHANGED <<fillVars, versionsVars, cliVars, loadVars>>

\* a comparison that accepts every package type
codeSha256Supported_any(packageType) == TRUE

\* strings.ToLower(packageType) == "zip"
codeSha256Supported(packageType) == ToLower(packageType) = "zip"

\* a comparison that brings the remote code up to date when the digests differ
DiffCodeSha256_upload ==
    /\ dpc = "sha"
    /\ LET res == Deref(remote)
           packageType == res.Configuration.PackageType
           currentCodeSha256 == res.Configuration.CodeSha256
       IN  IF ~opt.CodeSha256
           THEN DiffReturn(Nil) /\ UNCHANGED <<dOut, zipOps, calls, remote>>
           ELSE IF ~codeSha256Supported(packageType)
           THEN DiffReturn(Some(ErrCodeSha256Zip)) /\ UNCHANGED <<dOut, zipOps, calls, remote>>
           ELSE \/ /\ DiffReturn(Some(ErrPrepareZipfile))
                   /\ zipOps' = Append(zipOps, "prepare")
                   /\ UNCHANGED <<dOut, calls, remote>>
                \/ /\ DiffReturn(Some(ErrCopy))
                   /\ zipOps' = zipOps \o <<"prepare", "read">>
                   /\ UNCHANGED <<dOut, calls, remote>>
                \/ \E newCodeSha256 \in CodeShas :
                     /\ zipOps' = zipOps \o <<"prepare", "read", "hash">>
                     /\ IF currentCodeSha256 # newCodeSha256
                        THEN /\ dOut' = Append(dOut, <<"CodeSha256", currentCodeSha256, newCodeSha256>>)
                             /\ calls' = Append(calls, "UpdateFunctionCode")
                             /\ remote' = Some([res EXCEPT !.Configuration.CodeSha256 = newCodeSha256])
                        ELSE UNCHANGED <<dOut, calls, remote>>
                     /\ DiffReturn(Nil)
    /\ UNCHANGED <<opt, newFunc, latestFunc>>
    /\ UNCHANGED <<fillVars, versionsVars, cliVars, loadVars>>

\* the code-sha256 block and the final return
DiffCodeSha256 ==
    /\ dpc = "sha"
    /\ LET res == Deref(remote)
           packageType == res.Configuration.PackageType
           currentCodeSha256 == res.Configuration.CodeSha256
       IN  IF ~opt.CodeSha256
           THEN DiffReturn(Nil) /\ UNCHANGED <<dOut, zipOps>>
           ELSE IF ~codeSha256Supported(packageType)
           THEN DiffReturn(Some(ErrCodeSha256Zip)) /\ UNCHANGED <<dOut, zipOps>>
           ELSE \/ /\ DiffReturn(Some(ErrPrepareZipfile))
                   /\ zipOps' = Append(zipOps, "prepare")
                   /\ UNCHANGED dOut
                \/ /\ DiffReturn(Some(ErrCopy))
                   /\ zipOps' = zipOps \o <<"prepare", "read">>
                   /\ UNCHANGED dOut
                \/ \E newCodeSha256 \in CodeShas :
                     /\ zipOps' = zipOps \o <<"prepare", "read", "hash">>
                     /\ dOut' = IF currentCodeSha256 # newCodeSha256
                                THEN Append(dOut, <<"CodeSha256", currentCodeSha256, newCodeSha256>>)
                                ELSE dOut
                     /\ DiffReturn(Nil)
    /\ UNCHANGED <<opt, remote, newFunc, latestFunc, calls>>
    /\ UNCHANGED <<fillVars, versionsVars, cliVars, loadVars>>

NextDiff ==
    \/ DiffExpandExcludes
    \/ DiffLoadFunction
    \/ DiffGetFunction
    \/ DiffParseIgnore
    \/ DiffMakeDiff
    \/ DiffValidate
    \/ DiffCodeSha256

SpecDiff == InitDiff /\ [][NextDiff]_vars

----------------------------------------------------------------------------
(* The remote service's aliases and versions of the function *)

\* the identifiers of the published versions, in ascending order
VersionStr == <<"1", "2", "3", "4", "5">>

PublishedVersions == {VersionStr[i] : i \in 1..MaxPublished}

AllVersions == PublishedVersions \cup {versionLatest}

\* the number a published version identifier stands for
VersionNum(v) == CHOOSE i \in 1..Len(VersionStr) : VersionStr[i] = v

\* the name of the i-th alias of the function
AliasNameStr == <<"current", "dev", "stage", "prod">>

GoodLastModified == "2024-01-02T03:04:05.678+0000"

BadLastModified == "yesterday"

\* the routing configurations an alias whose primary version is p can have;
\* only the keys of AdditionalVersionWeights are kept
RoutingConfigs(p) ==
    {Nil, Some([AdditionalVersionWeights |-> Nil])}
      \cup {Some([AdditionalVersionWeights |-> Some(S)]) :
               S \in (SUBSET (PublishedVersions \ {p})) \ {{}}}

AliasConfigurations ==
    UNION {{[FunctionVersion |-> p, RoutingConfig |-> rc] : rc \in RoutingConfigs(p)} :
              p \in AllVersions}

\* aliases without a routing configuration
PlainAliasConfigurations ==
    {[FunctionVersion |-> p, RoutingConfig |-> Nil] : p \in AllVersions}

\* the alias listing in which the i-th alias has the i-th name and the i-th
\* configuration of cs
AliasListing(cs) ==
    [i \in DOMAIN cs |->
        [Name |-> AliasNameStr[i],
         FunctionVersion |-> cs[i].FunctionVersion,
         RoutingConfig |-> cs[i].RoutingConfig]]

\* the non-decreasing sequences of k cut points in 0..n
RECURSIVE Cuts(_, _)
Cuts(k, n) ==
    IF k = 0 THEN {<<>>}
    ELSE {Append(c, x) : c \in Cuts(k - 1, n), x \in 0..n} \cap
         {c \in [1..k -> 0..n] : \A i \in 1..(k - 1) : c[i] <= c[i + 1]}

\* the ways the service can cut the listing s into 1..MaxPages pages
Pagings(s) ==
    UNION {{[j \in 1..k |->
               SubSeq(s, (IF j = 1 THEN 0 ELSE c[j - 1]) + 1,
                         IF j = k THEN Len(s) ELSE c[j])] :
             c \in Cuts(k - 1, Len(s))} : k \in 1..MaxPages}

\* the orders in which the service can list all the versions of the function
VersionOrders ==
    {s \in [1..Cardinality(AllVersions) -> AllVersions] :
        \A i, j \in DOMAIN s : i # j => s[i] # s[j]}

\* the listing in which version bad (if any) has an unparsable timestamp
VersionListing(order, bad) ==
    [i \in DOMAIN order |->
        [Version |-> order[i],
         LastModified |-> IF order[i] = bad THEN BadLastModified ELSE GoodLastModified,
         Runtime |-> "nodejs18.x"]]

\* versionLatest first, then the published versions in ascending order
AscendingOrder ==
    [i \in 1..(MaxPublished + 1) |-> IF i = 1 THEN versionLatest ELSE VersionStr[i - 1]]

----------------------------------------------------------------------------
(* Versions *)

ErrListAliases == "failed to list aliases"

ErrListVersions == "failed to list versions"

ErrParseLastModified == "failed to parse last modified"

\* the page the service returns for a request marker: the first page for a
\* nil marker, and a marker for the next page unless this is the last one
RemotePage(pages, marker) ==
    LET k == IF IsNil(marker) THEN 1 ELSE Deref(marker)
    IN  [Items |-> pages[k],
         NextMarker |-> IF k < Len(pages) THEN Some(k + 1) ELSE Nil]

\* time.Parse with the layout of the service: Nil for an error
timeParse(s) == IF s = GoodLastModified THEN Some(s) ELSE Nil

\* an alias loop that forgets the weighted versions
secondaryVersions_none(alias) == {}

\* the keys of alias.RoutingConfig.AdditionalVersionWeights, none when the
\* routing configuration or the map is nil
secondaryVersions(alias) ==
    IF IsNil(alias.RoutingConfig) \/ IsNil(Deref(alias.RoutingConfig).AdditionalVersionWeights)
    THEN {}
    ELSE Deref(Deref(alias.RoutingConfig).AdditionalVersionWeights)

\* the body of the loop over res.Aliases for one alias: the name is appended
\* to the list of the primary version, then to the list of each weighted one
addAlias(m, alias) ==
    LET m1 == [m EXCEPT ![alias.FunctionVersion] = Append(@, alias.Name)]
    IN  [v \in DOMAIN m1 |->
            IF v \in secondaryVersions(alias) THEN Append(m1[v], alias.Name) ELSE m1[v]]

RECURSIVE addAliases(_, _)
addAliases(m, page) ==
    IF page = <<>> THEN m
    ELSE addAliases(addAlias(m, Head(page)), Tail(page))

\* a loop that puts the new page in front of what it has
appendVersions_prepend(vs, page) == page \o vs

\* versions = append(versions, res.Versions...)
appendVersions(vs, page) == vs \o page

\* a loop that stops after its first page
loopContinues_never(marker) == FALSE

\* the loops go on until the service returns a nil marker
loopContinues(marker) == ~IsNil(marker)

\* a listing that takes the head for a published version
isLatest_never(v) == FALSE

\* awsv2.ToString(v.Version) == versionLatest
isLatest(v) == v.Version = versionLatest

\* the loop that builds the output records: Nil when a timestamp does not parse
RECURSIVE buildOutputs(_, _, _)
buildOutputs(vs, m, vo) ==
    IF vs = <<>> THEN Some(vo)
    ELSE LET v == Head(vs) IN
         IF isLatest(v) THEN buildOutputs(Tail(vs), m, vo)
         ELSE IF IsNil(timeParse(v.LastModified)) THEN Nil
         ELSE buildOutputs(Tail(vs), m,
                  Append(vo, [Version |-> v.Version,
                              Aliases |-> m[v.Version],
                              LastModified |-> Deref(timeParse(v.LastModified)),
                              Runtime |-> v.Runtime]))

\* an execution cannot issue more list calls than this
MaxCalls == 2 * MaxPages + 2

NoAliases == [v \in AllVersions |-> <<>>]

\* the remote either has many kinds of aliases and lists its versions in
\* ascending order on one page, or has few aliases and lists its versions in
\* any order on any pages
InitVersions ==
    /\ \/ /\ \E n \in 0..MaxAliases : \E cs \in [1..n -> AliasConfigurations] :
                aliasPages \in Pagings(AliasListing(cs))
          /\ versionPages = <<VersionListing(AscendingOrder, "none")>>
       \/ /\ \E n \in 0..1 : \E cs \in [1..n -> PlainAliasConfigurations] :
                aliasPages \in Pagings(AliasListing(cs))
          /\ \E o \in VersionOrders : \E bad \in AllVersions \cup {"none"} :
                versionPages \in Pagings(VersionListing(o, bad))
    /\ vpc = "load"
    /\ nextAliasMarker = Nil
    /\ nextMarker = Nil
    /\ aliases = NoAliases
    /\ versions = <<>>
    /\ vCalls = <<>>
    /\ vOut = Nil
    /\ vErr = Nil
    /\ IdleFill
    /\ IdleDiff
    /\ IdleCLI
    /\ IdleLoad

\* return err
VersionsReturn(e) ==
    /\ vErr' = e
    /\ vpc' = "done"

\* loadFunctionV2, whose outcome depends on the function file; the listing
\* is modelled, that is the runs in which *opt.Delete is false
VersionsLoadFunction ==
    /\ vpc = "load"
    /\ \/ VersionsReturn(Some(ErrLoadFunction))
       \/ vpc' = "aliases" /\ UNCHANGED vErr
    /\ UNCHANGED <<aliasPages, versionPages, nextAliasMarker, nextMarker, aliases,
                   versions, vCalls, vOut>>
    /\ UNCHANGED <<fillVars, diffVars, cliVars, loadVars>>

\* one iteration of the alias loop: ListAliases with the current marker, the
\* loop over the page, and the test of the returned marker
VersionsListAliases ==
    /\ vpc = "aliases"
    /\ Len(vCalls) < MaxCalls
    /\ vCalls' = Append(vCalls, <<"ListAliases", nextAliasMarker>>)
    /\ \/ /\ VersionsReturn(Some(ErrListAliases))
          /\ UNCHANGED <<aliases, nextAliasMarker>>
       \/ LET res == RemotePage(aliasPages, nextAliasMarker)
          IN  /\ aliases' = addAliases(aliases, res.Items)
              /\ nextAliasMarker' = res.NextMarker
              /\ vpc' = IF loopContinues(res.NextMarker) THEN "aliases" ELSE "versions"
              /\ UNCHANGED vErr
    /\ UNCHANGED <<aliasPages, versionPages, nextMarker, versions, vOut>>
    /\ UNCHANGED <<fillVars, diffVars, cliVars, loadVars>>

\* a version loop that prints the records of the pages it has when a call fails
VersionsListVersions_partial ==
    /\ vpc = "versions"
    /\ Len(vCalls) < MaxCalls
    /\ vCalls' = Append(vCalls, <<"ListVersionsByFunction", nextMarker>>)
    /\ \/ /\ VersionsReturn(Some(ErrListVersions))
          /\ vOut' = LET vo == buildOutputs(versions, aliases, <<>>)
                     IN  IF IsNil(vo) THEN vOut ELSE vo
          /\ UNCHANGED <<versions, nextMarker>>
       \/ LET res == RemotePage(versionPages, nextMarker)
          IN  /\ versions' = appendVersions(versions, res.Items)
              /\ nextMarker' = res.NextMarker
              /\ vpc' = IF loopContinues(res.NextMarker) THEN "versions" ELSE "output"
              /\ UNCHANGED <<vErr, vOut>>
    /\ UNCHANGED <<aliasPages, versionPages, nextAliasMarker, aliases>>
    /\ UNCHANGED <<fillVars, diffVars, cliVars, loadVars>>

\* one iteration of the version loop
VersionsListVersions ==
    /\ vpc = "versions"
    /\ Len(vCalls) < MaxCalls
    /\ vCalls' = Append(vCalls, <<"ListVersionsByFunction", nextMarker>>)
    /\ \/ /\ VersionsReturn(Some(ErrListVersions))
          /\ UNCHANGED <<versions, nextMarker>>
       \/ LET res == RemotePage(versionPages, nextMarker)
          IN  /\ versions' = appendVersions(versions, res.Items)
              /\ nextMarker' = res.NextMarker
              /\ vpc' = IF loopContinues(res.NextMarker) THEN "versions" ELSE "output"
              /\ UNCHANGED vErr
    /\ UNCHANGED <<aliasPages, versionPages, nextAliasMarker, aliases, vOut>>
    /\ UNCHANGED <<fillVars, diffVars, cliVars, loadVars>>

\* the loop that builds the records, and the print of the records; the
\* json, tsv and table renderings print the same records
VersionsOutput ==
    /\ vpc = "output"
    /\ LET vo == buildOutputs(versions, aliases, <<>>)
       IN  IF IsNil(vo)
           THEN VersionsReturn(Some(ErrParseLastModified)) /\ UNCHANGED vOut
           ELSE VersionsReturn(Nil) /\ vOut' = vo
    /\ UNCHANGED <<aliasPages, versionPages, nextAliasMarker, nextMarker, aliases,
                   versions, vCalls>>
    /\ UNCHANGED <<fillVars, diffVars, cliVars, loadVars>>

NextVersions ==
    \/ VersionsLoadFunction
    \/ VersionsListAliases
    \/ VersionsListVersions
    \/ VersionsOutput

SpecVersions == InitVersions /\ [][NextVersions]_vars

----------------------------------------------------------------------------
(* The two commands that read the remote function, each run on its own *)

InitRemoteReads == InitDiff \/ InitVersions

NextRemoteReads == NextDiff \/ NextVersions

SpecRemoteReads == InitRemoteReads /\ [][NextRemoteReads]_vars

----------------------------------------------------------------------------
(* CLI and dispatchCLI *)

DefaultLogLevel == "info"

\* the commands dispatchCLI's second switch has a case for
DispatchedSubcommands ==
    {"init", "list", "deploy", "invoke", "logs", "versions", "archive", "rollback",
     "render", "diff", "delete", "status"}

\* the commands CLIOptions declares, which are the first words of the
\* command strings the parser hands to ParseCLI
Subcommands == DispatchedSubcommands \cup {"version"}

\* the options the parser returns, reduced to the fields CLI and dispatchCLI read
CLIOptionValues ==
    [Function : {"", "function.jsonnet"},
     LogLevel : {"", "debug", "error"},
     Color : BOOLEAN]

ErrParseArgs == "failed to parse args"

ErrLoadEnvfile == "failed to load envfile"

ErrLoadDefaultOptions == "failed to load default options"

\* the errors ParseCLI returns
ParseErrors == {ErrParseArgs, ErrLoadEnvfile, ErrLoadDefaultOptions}

\* the error of New
ErrNew == "failed to create app"

\* the error a command returns when it fails
ErrSubcommand == "command failed"

\* a CLI that hands the error back with the exit code of a success
cliResult_zero(err) == [code |-> 0, err |-> err]

\* if err != nil { return 1, err }, else return 0, nil
cliResult(err) ==
    IF ~IsNil(err) THEN [code |-> 1, err |-> err] ELSE [code |-> 0, err |-> Nil]

InitCLI ==
    /\ cpc = "parse"
    /\ sub = ""
    /\ cOpts = Nil
    /\ noColor \in BOOLEAN
    /\ minLevel = ""
    /\ cTrace = <<>>
    /\ cRet = Nil
    /\ IdleFill
    /\ IdleDiff
    /\ IdleVersions
    /\ IdleLoad

\* return from CLI after a callee has returned err
CLIReturn(err) ==
    /\ cRet' = Some(cliResult(err))
    /\ cpc' = "done"

\* parse(os.Args[1:]) and the test of its error
CLIParse ==
    /\ cpc = "parse"
    /\ \/ \E e \in ParseErrors :
            /\ cTrace' = Append(cTrace, <<"parse", Some(e)>>)
            /\ CLIReturn(Some(e))
            /\ UNCHANGED <<sub, cOpts>>
       \/ \E s \in Subcommands, o \in CLIOptionValues :
            /\ sub' = s
            /\ cOpts' = Some(o)
            /\ cTrace' = Append(cTrace, <<"parse", Nil>>)
            /\ cpc' = "setup"
            /\ UNCHANGED cRet
    /\ UNCHANGED <<noColor, minLevel>>
    /\ UNCHANGED <<fillVars, diffVars, versionsVars, loadVars>>

\* color.NoColor, the default of the log level, and the log filter
CLISetup ==
    /\ cpc = "setup"
    /\ LET o == Deref(cOpts)
           level == IF o.LogLevel = "" THEN DefaultLogLevel ELSE o.LogLevel
       IN  /\ noColor' = ~o.Color
           /\ cOpts' = Some([o EXCEPT !.LogLevel = level])
           /\ minLevel' = level
    /\ cpc' = "dispatch"
    /\ UNCHANGED <<sub, cTrace, cRet>>
    /\ UNCHANGED <<fillVars, diffVars, versionsVars, loadVars>>

\* dispatchCLI up to its second switch: the version command, then New
CLIDispatch ==
    /\ cpc = "dispatch"
    /\ IF sub \in {"version", ""}
       THEN /\ cTrace' = Append(cTrace, <<"version", Nil>>)
            /\ CLIReturn(Nil)
       ELSE \/ /\ cTrace' = Append(cTrace, <<"New", Some(ErrNew)>>)
               /\ CLIReturn(Some(ErrNew))
            \/ /\ cTrace' = Append(cTrace, <<"New", Nil>>)
               /\ cpc' = "run"
               /\ UNCHANGED cRet
    /\ UNCHANGED <<sub, cOpts, noColor, minLevel>>
    /\ UNCHANGED <<fillVars, diffVars, versionsVars, loadVars>>

\* the second switch of dispatchCLI: the command runs and its error is
\* returned; a command without a case gets the usage and nil
CLIRun ==
    /\ cpc = "run"
    /\ IF sub \in DispatchedSubcommands
       THEN \E e \in {Nil, Some(ErrSubcommand)} :
              /\ cTrace' = Append(cTrace, <<sub, e>>)
              /\ CLIReturn(e)
       ELSE /\ cTrace' = Append(cTrace, <<"usage", Nil>>)
            /\ CLIReturn(Nil)
    /\ UNCHANGED <<sub, cOpts, noColor, minLevel>>
    /\ UNCHANGED <<fillVars, diffVars, versionsVars, loadVars>>

NextCLI ==
    \/ CLIParse
    \/ CLISetup
    \/ CLIDispatch
    \/ CLIRun

SpecCLI == InitCLI /\ [][NextCLI]_vars

----------------------------------------------------------------------------
(* loadDefinitionFile *)

DefaultFunctionFilenames == <<"function.json", "function.jsonnet">>

DefaultOptionFilenames == <<"lambroll.json", "lambroll.jsonnet">>

\* filepath.Ext on the paths of the model
filepathExt(path) ==
    IF path \in {"function.jsonnet", "lambroll.jsonnet"} THEN ".jsonnet" ELSE ".json"

\* The text of a file is the set of the kinds of fragment it is made of:
\*   "lit"          literal JSON
\*   "expr"         a jsonnet expression that needs nothing from outside
\*   "call:native"  a call of a native function
\*   "ref:extStr"   a reference to an external string variable
\*   "ref:extCode"  a reference to an external code variable
\*   "{{env}}"      an env / must_env template inside a string
\*   "garbage"      text that is neither JSON nor jsonnet
\* and "val:..." is what a fragment becomes once it has been evaluated or
\* substituted.
JsonnetFragments == {"expr", "call:native", "ref:extStr", "ref:extCode", "{{env}}", "garbage"}

PlainFragments == {"{{env}}", "garbage"}

\* the texts a file with this extension can hold
FileContents(ext) ==
    {{"lit"} \cup t : t \in SUBSET (IF ext = ".jsonnet" THEN JsonnetFragments ELSE PlainFragments)}

\* the apps New builds: the native functions are always there, the external
\* variables come from the options
Apps ==
    [nativeFuncs : {{"native"}}, extStr : {{}, {"extStr"}}, extCode : {{}, {"extCode"}}]

NoBindings == [nativeFuncs |-> {}, extStr |-> {}, extCode |-> {}]

ErrNotExist == "file does not exist"

ErrEvaluateFile == "jsonnet evaluation failed"

ErrReadWithEnv == "template execution failed"

ErrReadFile == "read failed"

ErrUnmarshal == "failed to load"

\* what vm.NativeFunction, vm.ExtVar and vm.ExtCode have bound before the
\* evaluation: the app's functions and variables, nothing without an app
jsonnetBindings(app) ==
    IF ~IsNil(app)
    THEN [nativeFuncs |-> Deref(app).nativeFuncs,
          extStr |-> Deref(app).extStr,
          extCode |-> Deref(app).extCode]
    ELSE NoBindings

\* the binding calls made on the VM: one per function or variable of the app
bindingCalls(app) ==
    IF IsNil(app) THEN {}
    ELSE (IF Deref(app).nativeFuncs # {} THEN {"NativeFunction"} ELSE {})
         \cup (IF Deref(app).extStr # {} THEN {"ExtVar"} ELSE {})
         \cup (IF Deref(app).extCode # {} THEN {"ExtCode"} ELSE {})

\* vm.EvaluateFile: Nil for an error (text that does not parse, a native
\* function or an external variable that is not bound), else the JSON text
jsonnetEvaluate(b, text) ==
    IF \/ "garbage" \in text
       \/ "call:native" \in text /\ b.nativeFuncs = {}
       \/ "ref:extStr" \in text /\ b.extStr = {}
       \/ "ref:extCode" \in text /\ b.extCode = {}
    THEN Nil
    ELSE Some({CASE t = "expr" -> "val:expr"
                 [] t = "call:native" -> "val:native"
                 [] t = "ref:extStr" -> "val:extStr"
                 [] t = "ref:extCode" -> "val:extCode"
                 [] OTHER -> t : t \in text})

\* the substitution pass of the loader on a text
readWithEnv(text) == {IF t = "{{env}}" THEN "val:env" ELSE t : t \in text}

\* unmarshalJSON: Nil for an error, else the value the text stands for
unmarshalJSON(text) == IF "garbage" \in text THEN Nil ELSE Some(text)

\* a loader that runs the substitution pass whether there is an app or not
substitutesEnv_always(app) == TRUE

\* the test app != nil in front of ReadWithEnvBytes and ReadWithEnv
substitutesEnv(app) == ~IsNil(app)

\* ParseCLI loads the default options without an app and without a path;
\* loadFunction loads a function definition with the app
InitLoad ==
    /\ \/ lApp = Nil /\ lPath = ""
       \/ lApp \in {Some(a) : a \in Apps} /\ lPath \in {"", "function.json", "function.jsonnet"}
    /\ lpc = "find"
    /\ lContent = Nil
    /\ vm = NoBindings
    /\ lApplied = {}
    /\ lSrc = Nil
    /\ lVal = Nil
    /\ lErr = Nil
    /\ IdleFill
    /\ IdleDiff
    /\ IdleVersions
    /\ IdleCLI

\* the defaults argument of the two callers
LoadDefaults == IF IsNil(lApp) THEN DefaultOptionFilenames ELSE DefaultFunctionFilenames

\* return nil, err
LoadReturn(e) ==
    /\ lErr' = Some(e)
    /\ lpc' = "done"

\* findDefinitionFile when no path is given: one of the defaults, or an error
LoadFind ==
    /\ lpc = "find"
    /\ IF lPath = ""
       THEN \/ LoadReturn(ErrNotExist) /\ UNCHANGED lPath
            \/ \E i \in 1..Len(LoadDefaults) :
                 /\ lPath' = LoadDefaults[i]
                 /\ lpc' = "read"
                 /\ UNCHANGED lErr
       ELSE lpc' = "read" /\ UNCHANGED <<lPath, lErr>>
    /\ UNCHANGED <<lApp, lContent, vm, lApplied, lSrc, lVal>>
    /\ UNCHANGED <<fillVars, diffVars, versionsVars, cliVars>>

\* case ".jsonnet", up to the test of the error of vm.EvaluateFile
LoadJsonnet ==
    /\ lpc = "read"
    /\ filepathExt(lPath) = ".jsonnet"
    /\ \E text \in FileContents(".jsonnet") :
         LET b == jsonnetBindings(lApp)
             jsonStr == jsonnetEvaluate(b, text)
         IN  /\ lContent' = Some(text)
             /\ vm' = b
             /\ lApplied' = lApplied \cup bindingCalls(lApp) \cup {"EvaluateFile"}
             /\ IF IsNil(jsonStr)
                THEN LoadReturn(ErrEvaluateFile) /\ UNCHANGED lSrc
                ELSE lSrc' = jsonStr /\ lpc' = "env" /\ UNCHANGED lErr
    /\ UNCHANGED <<lApp, lPath, lVal>>
    /\ UNCHANGED <<fillVars, diffVars, versionsVars, cliVars>>

\* case ".jsonnet", after the evaluation: ReadWithEnvBytes with an app, the
\* jsonnet result as it is without one
LoadJsonnetEnv ==
    /\ lpc = "env"
    /\ IF substitutesEnv(lApp)
       THEN /\ lApplied' = lApplied \cup {"ReadWithEnvBytes"}
            /\ \/ LoadReturn(ErrReadWithEnv) /\ UNCHANGED lSrc
               \/ /\ lSrc' = Some(readWithEnv(Deref(lSrc)))
                  /\ lpc' = "unmarshal"
                  /\ UNCHANGED lErr
       ELSE lpc' = "unmarshal" /\ UNCHANGED <<lApplied, lSrc, lErr>>
    /\ UNCHANGED <<lApp, lPath, lContent, vm, lVal>>
    /\ UNCHANGED <<fillVars, diffVars, versionsVars, cliVars>>

\* the default case: ReadWithEnv with an app, os.ReadFile without one
LoadPlain ==
    /\ lpc = "read"
    /\ filepathExt(lPath) # ".jsonnet"
    /\ lApplied' = lApplied \cup {IF substitutesEnv(lApp) THEN "ReadWithEnv" ELSE "ReadFile"}
    /\ \/ /\ LoadReturn(IF substitutesEnv(lApp) THEN ErrReadWithEnv ELSE ErrReadFile)
          /\ UNCHANGED <<lContent, lSrc>>
       \/ \E text \in FileContents(".json") :
            /\ lContent' = Some(text)
            /\ lSrc' = Some(IF substitutesEnv(lApp) THEN readWithEnv(text) ELSE text)
            /\ lpc' = "unmarshal"
            /\ UNCHANGED lErr
    /\ UNCHANGED <<lApp, lPath, vm, lVal>>
    /\ UNCHANGED <<fillVars, diffVars, versionsVars, cliVars>>

\* unmarshalJSON(src, &v, path) and the two returns that follow it
LoadUnmarshal ==
    /\ lpc = "unmarshal"
    /\ lApplied' = lApplied \cup {"unmarshalJSON"}
    /\ LET v == unmarshalJSON(Deref(lSrc))
       IN  IF IsNil(v)
           THEN LoadReturn(ErrUnmarshal) /\ UNCHANGED lVal
           ELSE lVal' = v /\ lpc' = "done" /\ UNCHANGED lErr
    /\ UNCHANGED <<lApp, lPath, lContent, vm, lSrc>>
    /\ UNCHANGED <<fillVars, diffVars, versionsVars, cliVars>>

NextLoad ==
    \/ LoadFind
    \/ LoadJsonnet
    \/ LoadJsonnetEnv
    \/ LoadPlain
    \/ LoadUnmarshal

SpecLoad == InitLoad /\ [][NextLoad]_vars

----------------------------------------------------------------------------
(* Properties of the normalizer *)

\* C2: normalization is idempotent: once fillDefaultValues has been applied
\* to a definition, applying it again leaves the definition exactly as it is.
C2_Idempotent == [][fills >= 1 => fn' = fn]_vars

\* the second application ran on a definition that the first one had changed
C2_Witness == fills = 2 /\ fn # fnInput

\* the value the normalizer computes for an absent log group
DefaultLogGroup(f) == "/aws/lambda/" \o f.FunctionName

\* C6 (presence): after fillDefaultValues every defaulted field is present
C6_AllPresent ==
    /\ ~IsNil(fn.Architectures) /\ Len(Deref(fn.Architectures)) > 0
    /\ ~IsNil(fn.Description)
    /\ ~IsNil(fn.MemorySize)
    /\ ~IsNil(fn.Layers)
    /\ ~IsNil(fn.LoggingConfig)
    /\ Deref(fn.LoggingConfig).LogFormat # ""
    /\ ~IsNil(Deref(fn.LoggingConfig).LogGroup)
    /\ ~IsNil(fn.TracingConfig)
    /\ ~IsNil(fn.EphemeralStorage)
    /\ ~IsNil(fn.Timeout)
    /\ ~IsNil(fn.SnapStart)

\* C6 (values): every field that was absent on input has the documented default
C6_AbsentGetDefault ==
    /\ (IsNil(fnInput.Architectures) \/ Len(Deref(fnInput.Architectures)) = 0)
          => fn.Architectures = Some(<<"x86_64">>)
    /\ IsNil(fnInput.Description) => fn.Description = Some("")
    /\ IsNil(fnInput.MemorySize) => fn.MemorySize = Some(128)
    /\ IsNil(fnInput.Layers) => fn.Layers = Some(<<>>)
    /\ IsNil(fnInput.LoggingConfig) =>
          /\ Deref(fn.LoggingConfig).LogFormat = "Text"
          /\ Deref(fn.LoggingConfig).LogGroup = Some(DefaultLogGroup(fnInput))
    /\ (~IsNil(fnInput.LoggingConfig) /\ Deref(fnInput.LoggingConfig).LogFormat = "")
          => Deref(fn.LoggingConfig).LogFormat = "Text"
    /\ (~IsNil(fnInput.LoggingConfig) /\ IsNil(Deref(fnInput.LoggingConfig).LogGroup))
          => Deref(fn.LoggingConfig).LogGroup = Some(DefaultLogGroup(fnInput))
    /\ IsNil(fnInput.TracingConfig) => fn.TracingConfig = Some([Mode |-> "PassThrough"])
    /\ IsNil(fnInput.EphemeralStorage) => fn.EphemeralStorage = Some([Size |-> Some(512)])
    /\ IsNil(fnInput.Timeout) => fn.Timeout = Some(3)
    /\ IsNil(fnInput.SnapStart) => fn.SnapStart = Some([ApplyOn |-> "None"])

NonDefaultedFields ==
    {"FunctionName", "Handler", "Runtime", "Role", "PackageType", "Code", "Tags",
     "Environment", "VpcConfig"}

\* the pointer and struct fields fillDefaultValues defaults when they are nil
NilDefaultedFields ==
    {"Description", "MemorySize", "Layers", "TracingConfig", "EphemeralStorage",
     "Timeout", "SnapStart"}

\* the string fields of the logging configuration that are absent when empty
LoggingStringFields == {"LogFormat", "ApplicationLogLevel", "SystemLogLevel"}

\* C16: fillDefaultValues never overwrites a present value: every field that
\* is non-nil on input (explicit zeros and empty strings included), every
\* non-empty architecture list and every non-empty logging sub-field keeps its
\* input value, and the fields that have no default are unchanged.
C16_PresentValuesKept ==
    fills >= 1 =>
        /\ \A k \in NilDefaultedFields : ~IsNil(fnInput[k]) => fn[k] = fnInput[k]
        /\ (~IsNil(fnInput.Architectures) /\ Len(Deref(fnInput.Architectures)) > 0)
              => fn.Architectures = fnInput.Architectures
        /\ ~IsNil(fnInput.LoggingConfig) =>
              LET lcIn == Deref(fnInput.LoggingConfig)
                  lcOut == Deref(fn.LoggingConfig)
              IN  /\ \A k \in LoggingStringFields : lcIn[k] # "" => lcOut[k] = lcIn[k]
                  /\ ~IsNil(lcIn.LogGroup) => lcOut.LogGroup = lcIn.LogGroup
        /\ \A k \in NonDefaultedFields : fn[k] = fnInput[k]

\* fillDefaultValues has run on a definition with memory 0, timeout 0, an
\* empty description, an architecture list and a full logging configuration
C16_Witness ==
    /\ fills = 1
    /\ fnInput.MemorySize = Some(0) /\ fn.MemorySize = Some(0)
    /\ fnInput.Timeout = Some(0) /\ fn.Timeout = Some(0)
    /\ fnInput.Description = Some("") /\ fn.Description = Some("")
    /\ fn.Architectures = Some(<<"arm64">>)
    /\ fn.LoggingConfig = Some([LogFormat |-> "Text", LogGroup |-> Some("/custom/group"),
                                ApplicationLogLevel |-> "DEBUG", SystemLogLevel |-> "WARN"])
    /\ fn.LoggingConfig = fnInput.LoggingConfig
    /\ IsNil(fnInput.Layers) /\ fn # fnInput

\* the two log levels of a logging configuration
LogLevelFields == {"ApplicationLogLevel", "SystemLogLevel"}

\* the level is absent on input: no logging configuration, or an empty level
LevelAbsentOnInput(k) ==
    IsNil(fnInput.LoggingConfig) \/ Deref(fnInput.LoggingConfig)[k] = ""

\* C17: after fillDefaultValues a log level that was absent on input is INFO
\* exactly when the resulting log format is JSON; when the format is Text
\* (given, defaulted from an empty format, or because the whole logging
\* configuration was absent) the absent level stays absent.
C17_LogLevelDefaulting ==
    fills >= 1 =>
        LET lcOut == Deref(fn.LoggingConfig)
        IN  /\ \A k \in LogLevelFields :
                  LevelAbsentOnInput(k) =>
                      /\ lcOut[k] = "INFO" <=> lcOut.LogFormat = "JSON"
                      /\ lcOut.LogFormat = "Text" => lcOut[k] = ""
            /\ (IsNil(fnInput.LoggingConfig)
                   \/ Deref(fnInput.LoggingConfig).LogFormat \in {"", "Text"})
                  => lcOut.LogFormat = "Text"
            /\ (~IsNil(fnInput.LoggingConfig)
                   /\ Deref(fnInput.LoggingConfig).LogFormat = "JSON")
                  => lcOut.LogFormat = "JSON"

\* fillDefaultValues has run on a JSON logging configuration without levels
C17_Witness ==
    /\ fills = 1
    /\ ~IsNil(fnInput.LoggingConfig)
    /\ Deref(fnInput.LoggingConfig).LogFormat = "JSON"
    /\ Deref(fnInput.LoggingConfig).ApplicationLogLevel = ""
    /\ Deref(fnInput.LoggingConfig).SystemLogLevel = ""
    /\ Deref(fn.LoggingConfig).ApplicationLogLevel = "INFO"
    /\ Deref(fn.LoggingConfig).SystemLogLevel = "INFO"

----------------------------------------------------------------------------
(* Properties of Diff *)

\* Diff has run validateUpdateFunction: it is past that statement, or it
\* returned from it or from a later one
DiffValidated ==
    \/ dpc = "sha"
    \/ /\ dpc = "done"
       /\ dErr \notin {Some(ErrExcludeFile), Some(ErrLoadFunction), Some(ErrGetFunction),
                       Some(ErrIgnoreQuery), Some(ErrMakeDiff)}

\* the backing type of the remote function: image when its code location has
\* an image URI or its configuration declares package type Image
CurrentIsImage ==
    \/ HasImageUri(Deref(remote).Code)
    \/ Deref(remote).Configuration.PackageType = "Image"

\* the backing type of the desired definition
DesiredIsImage ==
    \/ HasImageUri(Deref(newFunc).Code)
    \/ Deref(newFunc).PackageType = "Image"

\* C1: code-type guard: whenever the remote function exists and its backing
\* type differs from the desired one, validateUpdateFunction returns
\* errCannotUpdateImageAndZip and Diff returns that error, having issued no
\* mutating remote call.
C1_CodeTypeGuard ==
    (DiffValidated /\ CurrentIsImage # DesiredIsImage)
        => /\ dpc = "done"
           /\ dErr = Some(errCannotUpdateImageAndZip)
           /\ \A i \in 1..Len(calls) : calls[i] \in ReadOnlyCalls

\* Diff refused an image definition for a function that is an archive
C1_Witness ==
    /\ dpc = "done"
    /\ dErr = Some(errCannotUpdateImageAndZip)
    /\ DesiredIsImage /\ ~CurrentIsImage
    /\ calls = <<"GetFunction">>

\* C4: newFunctionFrom marks the reconstructed definition as image-backed
\* (package type Image, code = the image URI) whenever the code location's
\* repository type is ECR or the configuration's package type is Image, and
\* leaves an archive reference in every other case.
C4_ImageDetection ==
    ~IsNil(latestFunc) =>
        LET res == Deref(remote)
            f == Deref(latestFunc)
            uri == IF IsNil(res.Code) THEN Nil ELSE Deref(res.Code).ImageUri
        IN  IF (~IsNil(res.Code) /\ Deref(res.Code).RepositoryType = "ECR")
               \/ res.Configuration.PackageType = "Image"
            THEN f.PackageType = "Image" /\ f.Code = Some([ImageUri |-> uri])
            ELSE f.PackageType # "Image" /\ ~HasImageUri(f.Code)

\* the ignore query given to Diff does not parse
InvalidIgnore == opt.Ignore # "" /\ IsNil(gojqParse(opt.Ignore))

\* C5 as stated: an invalid ignore expression makes Diff fail before any
\* remote call is issued and before any diff output.
C5_IgnoreErrorBeforeAnyRemoteCall ==
    dErr = Some(ErrIgnoreQuery) => (calls = <<>> /\ dOut = <<>>)

\* C5 as amended: with an invalid ignore expression Diff never prints, every
\* finished run returns an error, and when the error is the one of the ignore
\* query the read-only GetFunction is the only remote call that came before.
C5_IgnoreErrorBeforeOutput ==
    /\ InvalidIgnore => dOut = <<>> /\ zipOps = <<>>
    /\ (InvalidIgnore /\ dpc = "done") => ~IsNil(dErr)
    /\ dErr = Some(ErrIgnoreQuery) => (InvalidIgnore /\ calls = <<"GetFunction">>)

\* Diff returned the error of the ignore query
C5_Witness ==
    /\ dpc = "done"
    /\ InvalidIgnore
    /\ dErr = Some(ErrIgnoreQuery)
    /\ ~IsNil(latestFunc)

\* C10: when the code-digest comparison is requested for a remote function
\* whose package type is not Zip, Diff returns an error and never prepares,
\* reads nor hashes the candidate archive.
C10_CodeSha256OnlyForZip ==
    (opt.CodeSha256 /\ ~IsNil(remote) /\ Deref(remote).Configuration.PackageType # "Zip")
        => /\ zipOps = <<>>
           /\ dpc = "done" => ~IsNil(dErr)

\* Diff refused the code-digest comparison for an image function
C10_Witness ==
    /\ dpc = "done"
    /\ opt.CodeSha256
    /\ dErr = Some(ErrCodeSha256Zip)
    /\ Deref(remote).Configuration.PackageType = "Image"
    /\ zipOps = <<>>

\* C11: Diff is non-mutating: on every path the only remote call it issues
\* is the read-only GetFunction, at most once, and no step of Diff changes the
\* remote function (configuration and code) nor its versions and aliases.
C11_DiffNonMutating ==
    /\ [](Len(calls) <= 1 /\ \A i \in 1..Len(calls) : calls[i] = "GetFunction")
    /\ [][remote' = remote /\ versionPages' = versionPages /\ aliasPages' = aliasPages]_vars

\* Diff ran to its end, printed the definition diff and a digest difference,
\* over a remote function that exists
C11_Witness ==
    /\ dpc = "done"
    /\ IsNil(dErr)
    /\ ~IsNil(remote)
    /\ opt.CodeSha256
    /\ Len(dOut) = 2
    /\ zipOps = <<"prepare", "read", "hash">>
    /\ calls = <<"GetFunction">>

\* C12: when the fetch of the remote function fails (a function that does
\* not exist included) Diff returns the error of the GetFunction call and
\* emits no diff line; when a list call of the Versions listing fails,
\* Versions returns the error of that call and emits no version record.
C12_MissingRemote ==
    /\ (calls # <<>> /\ IsNil(latestFunc)) => dErr = Some(ErrGetFunction)
    /\ (calls # <<>> /\ IsNil(remote)) => dErr = Some(ErrGetFunction)
    /\ dErr = Some(ErrGetFunction) =>
          (dpc = "done" /\ dOut = <<>> /\ zipOps = <<>> /\ calls = <<"GetFunction">>)
    /\ vErr \in {Some(ErrListAliases), Some(ErrListVersions)} =>
          (vpc = "done" /\ vOut = Nil /\ vCalls # <<>>)
    /\ vOut # Nil => IsNil(vErr)

\* Diff asked for a function that does not exist and returned the error
C12_Witness ==
    /\ dpc = "done"
    /\ IsNil(remote)
    /\ calls = <<"GetFunction">>
    /\ dErr = Some(ErrGetFunction)
    /\ dOut = <<>>

\* C15: validateUpdateFunction rejects only genuine mismatches: without a
\* current configuration (the create path) it returns no error, and when the
\* remote function and the desired definition have the same backing type
\* (both archive, or both image, an image being told by an image URI or by a
\* declared package type Image) Diff does not return
\* errCannotUpdateImageAndZip.
C15_RejectsOnlyMismatches ==
    /\ ~IsNil(newFunc) =>
          \A code \in RemoteCodeLocations :
              validateUpdateFunction(Nil, code, Deref(newFunc)) = Nil
    /\ (DiffValidated /\ CurrentIsImage = DesiredIsImage)
          => dErr # Some(errCannotUpdateImageAndZip)

----------------------------------------------------------------------------
(* Properties of CLI *)

\* the calls of CLI that returned an error
FailedCalls == {i \in 1..Len(cTrace) : ~IsNil(cTrace[i][2])}

\* C13: CLI returns exit code 1 together with the error whenever the
\* argument parsing, the construction of the app or the dispatched command
\* fails, and returns exit code 0 with no error only when the requested
\* command ran and returned no error.
C13_ExitBehaviour ==
    cpc = "done" =>
        LET r == Deref(cRet)
            last == cTrace[Len(cTrace)]
        IN  /\ r.code \in {0, 1}
            /\ FailedCalls # {} =>
                  (r.code = 1 /\ r.err = last[2] /\ FailedCalls = {Len(cTrace)})
            /\ r.code = 1 => (FailedCalls # {} /\ ~IsNil(r.err))
            /\ r.code = 0 => (IsNil(r.err) /\ last = <<sub, Nil>>)

\* the deploy command failed and CLI returned 1 with its error
C13_Witness ==
    /\ cpc = "done"
    /\ sub = "deploy"
    /\ cTrace = <<<<"parse", Nil>>, <<"New", Nil>>, <<"deploy", Some(ErrSubcommand)>>>>
    /\ cRet = Some([code |-> 1, err |-> Some(ErrSubcommand)])

----------------------------------------------------------------------------
(* Properties of loadDefinitionFile *)

\* the library calls that bring values from outside into the definition
ExternalValueCalls == {"NativeFunction", "ExtVar", "ExtCode", "ReadWithEnv", "ReadWithEnvBytes"}

\* what a text becomes when a value from outside has been put into it
ExternalValues == {"val:native", "val:extStr", "val:extCode", "val:env"}

\* what the jsonnet VM makes of a text that needs nothing from outside
EvaluatedAlone(text) == {IF t = "expr" THEN "val:expr" ELSE t : t \in text}

\* C14: when loadDefinitionFile runs without an App, for a jsonnet and for a
\* plain source alike, no native function and no external string or code
\* variable is bound, no environment substitution pass runs, and the value
\* loaded is the deserialization of the file content as it is (for a jsonnet
\* source, of what the VM yields for it with nothing bound): nothing from
\* outside the file is in it and an env template stays as written.
C14_NoAppPlainLoad ==
    (lpc # "idle" /\ IsNil(lApp)) =>
        /\ lApplied \cap ExternalValueCalls = {}
        /\ vm = [nativeFuncs |-> {}, extStr |-> {}, extCode |-> {}]
        /\ ~IsNil(lSrc) =>
              /\ Deref(lSrc) \cap ExternalValues = {}
              /\ Deref(lSrc) = IF lPath \in {"lambroll.jsonnet", "function.jsonnet"}
                               THEN EvaluatedAlone(Deref(lContent))
                               ELSE Deref(lContent)
        /\ ~IsNil(lVal) => lVal = lSrc

\* the default options were loaded without an app from a jsonnet file that
\* holds an env template, which is in the loaded value as written
C14_Witness ==
    /\ lpc = "done"
    /\ IsNil(lApp)
    /\ lPath = "lambroll.jsonnet"
    /\ lContent = Some({"lit", "expr", "{{env}}"})
    /\ lVal = Some({"lit", "val:expr", "{{env}}"})
    /\ lApplied = {"EvaluateFile", "unmarshalJSON"}

----------------------------------------------------------------------------
(* Properties of the Versions listing *)

RECURSIVE Flatten(_)
Flatten(pages) == IF pages = <<>> THEN <<>> ELSE Head(pages) \o Flatten(Tail(pages))

Range(s) == {s[i] : i \in DOMAIN s}

Count(s, x) == Cardinality({i \in DOMAIN s : s[i] = x})

\* the versions an alias gives a weight to
WeightedVersions(a) ==
    IF a.RoutingConfig = Nil THEN {}
    ELSE IF a.RoutingConfig[1].AdditionalVersionWeights = Nil THEN {}
    ELSE a.RoutingConfig[1].AdditionalVersionWeights[1]

\* alias a references version v as its primary or as a weighted version
References(a, v) == a.FunctionVersion = v \/ v \in WeightedVersions(a)

\* the names of the aliases of the remote function that reference v
NamesReferencing(v) == {a.Name : a \in {b \in Range(Flatten(aliasPages)) : References(b, v)}}

\* the alias loop has ended without an error
AliasLoopDone ==
    \/ vpc \in {"versions", "output"}
    \/ vpc = "done" /\ vErr \notin {Some(ErrLoadFunction), Some(ErrListAliases)}

\* the version loop has ended without an error
VersionLoopDone ==
    \/ vpc = "output"
    \/ vpc = "done" /\ vErr \in {Nil, Some(ErrParseLastModified)}

\* Versions has printed its records and returned nil
VersionsPrinted == vpc = "done" /\ vErr = Nil

\* the version identifiers of the printed records, in order
PrintedVersions == [i \in DOMAIN Deref(vOut) |-> Deref(vOut)[i].Version]

\* the version identifiers of the remote listing, page after page
ListedVersions == [i \in DOMAIN Flatten(versionPages) |-> Flatten(versionPages)[i].Version]

\* C3: alias-weight accounting: once all alias pages are consumed, the name
\* of an alias is attributed to its primary version and to each of its
\* weighted versions, and to no other version; the printed record of a
\* version lists exactly the aliases that reference it.
C3_AliasAccounting ==
    /\ AliasLoopDone =>
          \A v \in AllVersions :
             /\ Range(aliases[v]) = NamesReferencing(v)
             /\ Len(aliases[v]) = Cardinality(NamesReferencing(v))
    /\ VersionsPrinted =>
          \A i \in DOMAIN Deref(vOut) :
             Range(Deref(vOut)[i].Aliases) = NamesReferencing(Deref(vOut)[i].Version)

\* an alias with primary version 1 and weighted versions 2 and 3 is listed
\* in the printed records of all three
C3_Witness ==
    /\ VersionsPrinted
    /\ \E a \in Range(Flatten(aliasPages)) :
          /\ a.FunctionVersion = "1"
          /\ WeightedVersions(a) = {"2", "3"}
          /\ \A v \in {"1", "2", "3"} :
                \E i \in DOMAIN Deref(vOut) :
                   Deref(vOut)[i].Version = v /\ a.Name \in Range(Deref(vOut)[i].Aliases)

\* the calls of one list operation, in the order they were issued
CallsOf(api) == SelectSeq(vCalls, LAMBDA c : c[1] = api)

\* the first request has a nil marker, every later one has the marker the
\* page before it returned, and no request follows a page without marker
MarkerChain(cs, pages) ==
    \A i \in DOMAIN cs :
       IF i = 1 THEN cs[i][2] = Nil
       ELSE /\ RemotePage(pages, cs[i - 1][2]).NextMarker # Nil
            /\ cs[i][2] = RemotePage(pages, cs[i - 1][2]).NextMarker

\* C7: pagination: each loop starts with a nil marker, passes the marker of
\* page k as the request marker of page k+1, stops exactly when a page comes
\* without marker, accumulates every item of every page, and ends after
\* exactly one fetch per page.
C7_Pagination ==
    /\ MarkerChain(CallsOf("ListAliases"), aliasPages)
    /\ MarkerChain(CallsOf("ListVersionsByFunction"), versionPages)
    /\ Len(CallsOf("ListAliases")) <= Len(aliasPages)
    /\ Len(CallsOf("ListVersionsByFunction")) <= Len(versionPages)
    /\ vpc \in {"aliases", "versions"} => Len(vCalls) < MaxCalls
    /\ AliasLoopDone =>
          /\ Len(CallsOf("ListAliases")) = Len(aliasPages)
          /\ nextAliasMarker = Nil
          /\ \A a \in Range(Flatten(aliasPages)) : a.Name \in Range(aliases[a.FunctionVersion])
    /\ VersionLoopDone =>
          /\ Len(CallsOf("ListVersionsByFunction")) = Len(versionPages)
          /\ nextMarker = Nil
          /\ versions = Flatten(versionPages)

\* both listings took two pages and Versions fetched each page once
C7_Witness ==
    /\ VersionsPrinted
    /\ Len(aliasPages) = 2 /\ Len(versionPages) = 2
    /\ vCalls = <<<<"ListAliases", Nil>>, <<"ListAliases", Some(2)>>,
                  <<"ListVersionsByFunction", Nil>>, <<"ListVersionsByFunction", Some(2)>>>>
    /\ Len(versions) = MaxPublished + 1

\* C8: the listing prints exactly one record for each published version the
\* service returned over all pages, and no record for $LATEST, wherever
\* $LATEST is in the listing.
C8_OneRecordPerPublishedVersion ==
    VersionsPrinted =>
        \A v \in AllVersions :
           Count(PrintedVersions, v) = IF v = "$LATEST" THEN 0 ELSE Count(ListedVersions, v)

\* $LATEST came last, on the second page, and every published version has
\* its record
C8_Witness ==
    /\ VersionsPrinted
    /\ Len(versionPages) = 2
    /\ ListedVersions[Len(ListedVersions)] = "$LATEST"
    /\ Len(versionPages[2]) > 0
    /\ Range(PrintedVersions) = PublishedVersions

\* s is in ascending version order
Ascending(s) == \A i, j \in DOMAIN s : i < j => VersionNum(s[i]) < VersionNum(s[j])

\* C9 as stated: the printed records are in ascending version order, for
\* every order in which the service returns the versions.
C9_SortedAscending == VersionsPrinted => Ascending(PrintedVersions)

\* C9 as amended: the printed records are in the order in which the service
\* returned the versions, page after page; they are ascending when the
\* service returned the versions in ascending order.
C9_RemoteOrderKept ==
    VersionsPrinted =>
        /\ PrintedVersions = SelectSeq(ListedVersions, LAMBDA v : v # "$LATEST")
        /\ Ascending(SelectSeq(ListedVersions, LAMBDA v : v # "$LATEST"))
              => Ascending(PrintedVersions)

\* the service returned the published versions in ascending order on two
\* pages, and they were printed in that order
C9_Witness ==
    /\ VersionsPrinted
    /\ Len(versionPages) = 2
    /\ Len(versionPages[1]) > 1 /\ Len(versionPages[2]) > 0
    /\ Len(PrintedVersions) = MaxPublished
    /\ Ascending(PrintedVersions)

============================================================================
